---- MODULE Spec2Model ----
(***************************************************************************)
(* A model of the ops-mysql-eyes HTTP gateway.                             *)
(*                                                                         *)
(* The repository holds four revisions of the same server:                 *)
(*   part_000  src/unnamed/part_000      no access gate, SELECT check only   *)
(*   part_001  src/unnamed/part_001      access gate, SELECT check only      *)
(*   server_a  src/server.js:1-266       gate, validator, cache, diagrams    *)
(*   server_b  src/server.js:268-483     gate, cache, diagrams; the          *)
(*                                       validator is elided                 *)
(* The variable `variant` says which one is deployed.                      *)
(*                                                                         *)
(* Texts are sequences of one-character strings so that trim, toUpperCase, *)
(* startsWith, split and the regular expression are computed, not assumed. *)
(***************************************************************************)
EXTENDS Integers, Sequences, FiniteSets, TLC

VARIABLES variant, now, cache, files, req, lastResp, probe

vars == <<variant, now, cache, files, req, lastResp, probe>>

(***************************************************************************)
(* Bounds of the model.                                                    *)
(***************************************************************************)
\* Requests that may be in flight together under Spec.
NumReq == 2
\* Milliseconds the clock may run past the cache's time-to-live.
MaxSkew == 1
\* Entries the cache may hold: src/server.js:56 sets 500; the model scales it.
CacheMax == 2

(***************************************************************************)
(* Characters and the string functions the handlers use.                   *)
(***************************************************************************)
LowerLetters ==
    <<"a","b","c","d","e","f","g","h","i","j","k","l","m",
      "n","o","p","q","r","s","t","u","v","w","x","y","z">>

UpperLetters ==
    <<"A","B","C","D","E","F","G","H","I","J","K","L","M",
      "N","O","P","Q","R","S","T","U","V","W","X","Y","Z">>

Digits == {"0","1","2","3","4","5","6","7","8","9"}

Range(f) == {f[i] : i \in DOMAIN f}

\* \w of a JavaScript regular expression: [A-Za-z0-9_]
IsWordChar(c) == c \in Range(LowerLetters) \cup Range(UpperLetters) \cup Digits \cup {"_"}

\* white space as String.prototype.trim sees it
IsSpace(c) == c \in {" ", "\t", "\n", "\r"}

ToUpperChar(c) ==
    IF c \in Range(LowerLetters)
    THEN UpperLetters[CHOOSE i \in DOMAIN LowerLetters : LowerLetters[i] = c]
    ELSE c

\* String.prototype.toUpperCase
ToUpperCase(s) == [i \in 1..Len(s) |-> ToUpperChar(s[i])]

\* String.prototype.trim
Trim(s) ==
    LET keep == {i \in 1..Len(s) : ~IsSpace(s[i])}
    IN  IF keep = {} THEN <<>>
        ELSE LET first == CHOOSE i \in keep : \A j \in keep : i <= j
                 last  == CHOOSE i \in keep : \A j \in keep : j <= i
             IN  SubSeq(s, first, last)

\* String.prototype.startsWith
StartsWith(s, p) == Len(s) >= Len(p) /\ SubSeq(s, 1, Len(p)) = p

\* authHeader.split(' ')[1]: the text between the first and the second space;
\* <<>> stands for both undefined (no space in the header) and the empty string,
\* which `!token` treats alike.
SplitSecond(h) ==
    LET sp == {i \in 1..Len(h) : h[i] = " "}
    IN  IF sp = {} THEN <<>>
        ELSE LET s1   == CHOOSE i \in sp : \A j \in sp : i <= j
                 rest == {i \in sp : i > s1}
                 s2   == IF rest = {} THEN Len(h) + 1
                         ELSE CHOOSE i \in rest : \A j \in rest : i <= j
             IN  SubSeq(h, s1 + 1, s2 - 1)

(***************************************************************************)
(* The query validator of server_a.                                        *)
(***************************************************************************)
SELECT == <<"S","E","L","E","C","T">>

\* the alternatives of forbiddenPatterns, src/server.js:91
ForbiddenWords ==
    { <<"A","L","T","E","R">>, <<"D","R","O","P">>, <<"D","E","L","E","T","E">>,
      <<"I","N","S","E","R","T">>, <<"U","P","D","A","T","E">>,
      <<"T","R","U","N","C","A","T","E">>, <<"E","X","E","C">>,
      <<"M","E","R","G","E">>, <<"C","A","L","L">>, <<"U","N","I","O","N">> }

ForbiddenPunct == { <<"-","-">>, <<";">>, <<"*","/">>, <<"/","*">> }

\* \b at the gap after position p (0..Len(s)): exactly one side is a word character
WordBoundary(s, p) ==
    LET left  == p >= 1 /\ IsWordChar(s[p])
        right == p < Len(s) /\ IsWordChar(s[p + 1])
    IN  left # right

\* the literal `lit` (upper case) occurs at position i, compared case-insensitively
OccursAt(s, i, lit) ==
    /\ i + Len(lit) - 1 <= Len(s)
    /\ ToUpperCase(SubSeq(s, i, i + Len(lit) - 1)) = lit

\* /(\b(ALTER|...|--|;|\*\/|\/\*)\b)/i.test(s): every alternative, the punctuation
\* too, stands between two \b
ForbiddenPatterns(s) ==
    \E i \in 1..Len(s) : \E lit \in ForbiddenWords \cup ForbiddenPunct :
        /\ OccursAt(s, i, lit)
        /\ WordBoundary(s, i - 1)
        /\ WordBoundary(s, i - 1 + Len(lit))

MaxSqlLength == 1000

\* ValidateSql with the denylist consulted before the SELECT prefix
ValidateSqlDenyFirst(v, s) ==
    IF v = "server_b" THEN ""
    ELSE IF v = "server_a" /\ ForbiddenPatterns(s) THEN "Invalid or unsafe SQL query"
    ELSE IF ~StartsWith(ToUpperCase(Trim(s)), SELECT)
         THEN "Only SELECT statements are allowed"
    ELSE IF v = "server_a" /\ Len(s) > MaxSqlLength THEN "SQL query is too long"
    ELSE ""

\* ValidateSql without the length cap
ValidateSqlNoLength(v, s) ==
    IF v = "server_b" THEN ""
    ELSE IF ~StartsWith(ToUpperCase(Trim(s)), SELECT)
         THEN "Only SELECT statements are allowed"
    ELSE IF v # "server_a" THEN ""
    ELSE IF ForbiddenPatterns(s) THEN "Invalid or unsafe SQL query"
    ELSE ""

\* the validator's verdict on a non-empty text: "" when it passes, else the error
\* of the 400 response.  part_000 and part_001 check the SELECT prefix only;
\* server_b holds a comment in place of the validator.
ValidateSql(v, s) ==
    IF v = "server_b" THEN ""
    ELSE IF ~StartsWith(ToUpperCase(Trim(s)), SELECT)
         THEN "Only SELECT statements are allowed"
    ELSE IF v # "server_a" THEN ""
    ELSE IF ForbiddenPatterns(s) THEN "Invalid or unsafe SQL query"
    ELSE IF Len(s) > MaxSqlLength THEN "SQL query is too long"
    ELSE ""

(***************************************************************************)
(* The inputs: Authorization headers and query texts.                      *)
(***************************************************************************)
\* process.env.AUTH_TOKEN, the configured secret: "s3"
AuthToken == <<"s","3">>

Headers ==
    << <<"B","e","a","r","e","r"," ","s","3">>,            \* 1: "Bearer s3"
       <<"B","e","a","r","e","r"," ","n","o">>,            \* 2: "Bearer no"
       <<"B","e","a","r","e","r">>,                        \* 3: "Bearer"
       <<"B","e","a","r","e","r"," ">>,                    \* 4: "Bearer "
       <<"s","3">>,                                        \* 5: "s3"
       <<"B","a","s","i","c"," ","s","3">>,                \* 6: "Basic s3"
       <<"B","e","a","r","e","r"," "," ","s","3">>,        \* 7: "Bearer  s3"
       <<>>,                                               \* 8: ""
       <<"B","e","a","r","e","r"," ","s","3"," ","x">> >>  \* 9: "Bearer s3 x"

\* header 0 is a request without an Authorization header
HeaderIds == 0..Len(Headers)

Pad(p, n) == p \o [i \in 1..(n - Len(p)) |-> "x"]

Queries ==
    << <<"S","E","L","E","C","T"," ","1">>,                                \* 1: "SELECT 1"
       <<" ","s","e","l","e","c","t"," ","2"," ">>,                        \* 2: " select 2 "
       <<"S","E","L","E","C","T"," ","1",";">>,                            \* 3: "SELECT 1;"
       <<"S","E","L","E","C","T"," ","a",";","b">>,                        \* 4: "SELECT a;b"
       <<"D","R","O","P"," ","T","A","B","L","E"," ","t">>,                \* 5: "DROP TABLE t"
       <<"S","E","L","E","C","T"," ","1"," ","D","r","o","p"," ","t">>,    \* 6: "SELECT 1 Drop t"
       <<"S","E","L","E","C","T"," ","d","r","o","p","x">>,                \* 7: "SELECT dropx"
       <<"S","E","L","E","C","T"," ","1"," ","-","-"," ","x">>,            \* 8: "SELECT 1 -- x"
       <<"S","E","L","E","C","T"," ","1"," ","/","*"," ","x"," ","*","/">>, \* 9: "SELECT 1 /* x */"
       <<"s","e","l","e","c","t"," ","a","-","-","b">>,                    \* 10: "select a--b"
       <<>>,                                                               \* 11: ""
       <<" "," "," ">>,                                                    \* 12: "   "
       Pad(<<"S","E","L","E","C","T"," ">>, MaxSqlLength + 1),             \* 13: 1001 characters
       Pad(<<"S","E","L","E","C","T"," ">>, MaxSqlLength),                 \* 14: 1000 characters
       Pad(<<"D","R","O","P"," ">>, MaxSqlLength + 1) >>                   \* 15: 1001 characters

\* query 0 is a body without an sql field (undefined)
QueryIds == 0..Len(Queries)

Variants == {"part_000", "part_001", "server_a", "server_b"}

\* `!sql`: undefined or the empty string
NoSql(q) == q = 0 \/ Queries[q] = <<>>

\* the validator's verdicts, computed once
Verdict ==
    [v \in Variants |-> [q \in 1..Len(Queries) |-> ValidateSql(v, Queries[q])]]

(***************************************************************************)
(* Responses.  A JSON body is a record with every field the handlers ever  *)
(* send; "", 0 and <<>> mark a field the body does not have.               *)
(***************************************************************************)
NoBody ==
    [shape |-> "none", error |-> "", message |-> "", sql |-> 0,
     mermaidDiagram |-> <<>>, imageBase64 |-> "", data |-> <<>>]

\* { error: msg }
ErrorBody(msg) == [NoBody EXCEPT !.shape = "object", !.error = msg]

\* res.json(results) of part_000 and part_001: the bare array
ArrayBody(results) == [NoBody EXCEPT !.shape = "array", !.data = <<results>>]

\* { message, sql }: src/server.js:118-121
NoDataBody(q) ==
    [NoBody EXCEPT !.shape = "object", !.sql = q,
        !.message = "No data found for the given query. Please check your query and try again."]

\* { sql, message, data }: src/server.js:156-160
NoDiagramBody(q, results) ==
    [NoBody EXCEPT !.shape = "object", !.sql = q, !.data = <<results>>,
        !.message = "Mermaid diagram could not be generated."]

\* { sql, mermaidDiagram, message, data }: src/server.js:175-180
NoImageBody(q, diagram, results) ==
    [NoBody EXCEPT !.shape = "object", !.sql = q, !.mermaidDiagram = diagram,
        !.data = <<results>>,
        !.message = "Image could not be generated from Mermaid diagram."]

\* { sql, mermaidDiagram, imageBase64, data } of server_a (src/server.js:187-192);
\* server_b sends no data field (src/server.js:405-409)
FullBody(v, q, diagram, image, results) ==
    [NoBody EXCEPT !.shape = "object", !.sql = q, !.mermaidDiagram = diagram,
        !.imageBase64 = image,
        !.data = IF v = "server_a" THEN <<results>> ELSE <<>>]

InternalError == "Internal server error"

(***************************************************************************)
(* The result cache: new LRUCache({ max, ttl }).  An entry is              *)
(* [key, value, start]; the sequence runs from the least to the most       *)
(* recently used entry.                                                    *)
(***************************************************************************)
\* a time-to-live of one minute
CacheTtlMinute == 1000 * 60

\* ttl: 1000 * 60 * 5 milliseconds
CacheTtl == 1000 * 60 * 5

\* an entry is stale once its age exceeds the ttl
IsStale(e, t) == t - e.start > CacheTtl

IndexOf(c, k) ==
    IF \E i \in 1..Len(c) : c[i].key = k
    THEN CHOOSE i \in 1..Len(c) : c[i].key = k
    ELSE 0

Without(c, i) == SubSeq(c, 1, i - 1) \o SubSeq(c, i + 1, Len(c))

\* cache.get(k) at time t: [hit, value, cache]; a stale entry is deleted and
\* reported absent, a live one becomes the most recently used
CacheGet(c, k, t) ==
    LET i == IndexOf(c, k)
    IN  IF i = 0 THEN [hit |-> FALSE, value |-> NoBody, cache |-> c]
        ELSE IF IsStale(c[i], t)
             THEN [hit |-> FALSE, value |-> NoBody, cache |-> Without(c, i)]
        ELSE [hit |-> TRUE, value |-> c[i].value,
              cache |-> Append(Without(c, i), c[i])]

\* cache.set(k, v) at time t: the entry is (re)written with a fresh start and
\* becomes the most recently used; a new key in a full cache evicts the least
\* recently used entry
CacheSet(c, k, v, t) ==
    LET i == IndexOf(c, k)
        e == [key |-> k, value |-> v, start |-> t]
    IN  IF i # 0 THEN Append(Without(c, i), e)
        ELSE IF Len(c) >= CacheMax THEN Append(Tail(c), e)
        ELSE Append(c, e)

(***************************************************************************)
(* The access gate.                                                        *)
(***************************************************************************)
HasGate(v) == v # "part_000"

HasCache(v) == v \in {"server_a", "server_b"}

\* the token the gate extracts: authHeader && authHeader.split(' ')[1]
TokenOf(h) == IF h = 0 THEN <<>> ELSE SplitSecond(Headers[h])

\* authenticateToken without the comparison against the secret
AuthenticateTokenAnyToken(h) ==
    IF TokenOf(h) = <<>> THEN "401" ELSE "next"

\* authenticateToken: "401", "403" or "next"
AuthenticateToken(h) ==
    LET token == TokenOf(h)
    IN  IF token = <<>> THEN "401"
        ELSE IF token # AuthToken THEN "403"
        ELSE "next"

GateVerdict == [h \in HeaderIds |-> AuthenticateToken(h)]

(***************************************************************************)
(* The diagram synthesizer's extraction.  An assistant message is a        *)
(* sequence of tokens: "[fence mermaid]" for the three backquotes, the     *)
(* word mermaid and the line feed that open a block, "[fence]" for three   *)
(* backquotes, white space, or a run of other text.                        *)
(***************************************************************************)
IsOpenFence(tok) == tok \in {"[fence mermaid]", "[fence MERMAID]"}

CloseFence == "[fence]"

IsBlank(tok) == tok \in {" ", "\n"}

TrimTokens(text) ==
    LET keep == {i \in 1..Len(text) : ~IsBlank(text[i])}
    IN  IF keep = {} THEN <<>>
        ELSE LET first == CHOOSE i \in keep : \A j \in keep : i <= j
                 last  == CHOOSE i \in keep : \A j \in keep : j <= i
             IN  SubSeq(text, first, last)

\* extractMermaidCode: /```mermaid\n([\s\S]*?)```/i, then match[1].trim();
\* <<>> stands for null and for the empty string, which `!mermaidDiagram`
\* treats alike
ExtractMermaidCode(text) ==
    LET opens == {i \in 1..Len(text) :
                    /\ IsOpenFence(text[i])
                    /\ \E j \in (i + 1)..Len(text) : text[j] = CloseFence}
    IN  IF opens = {} THEN <<>>
        ELSE LET i == CHOOSE x \in opens : \A y \in opens : x <= y
                 closes == {j \in (i + 1)..Len(text) : text[j] = CloseFence}
                 j == CHOOSE x \in closes : \A y \in closes : x <= y
             IN  TrimTokens(SubSeq(text, i + 1, j - 1))

(***************************************************************************)
(* What the collaborators may answer.                                      *)
(***************************************************************************)
RowsA == <<"row1">>
RowsB == <<"row1", "row2">>

\* pool.query: an error with its message, or a result set
StoreError(msg) == [err |-> msg, rows |-> <<>>]
StoreRows(rows) == [err |-> "", rows |-> rows]

AllStoreOutcomes ==
    { StoreError("ER_PARSE_ERROR"), StoreError("ER_TABLEACCESS_DENIED_ERROR"),
      StoreRows(<<>>), StoreRows(RowsA), StoreRows(RowsB) }

\* openai.chat.completions.create: it throws, or answers a message
LlmThrows == [threw |-> TRUE, text |-> <<>>]
LlmSays(text) == [threw |-> FALSE, text |-> text]

FencedDiagram == <<"Here you go:", "\n", "[fence mermaid]", "graph TD; A-->B", "\n", "[fence]">>

AllLlmOutcomes ==
    { LlmThrows,
      LlmSays(FencedDiagram),
      LlmSays(<<"[fence MERMAID]", "graph LR; X-->Y", "[fence]", "[fence]">>),
      LlmSays(<<"I cannot draw this.">>),
      LlmSays(<<"[fence mermaid]", "graph TD; A-->B">>),
      LlmSays(<<"[fence mermaid]", " ", "[fence]">>) }

\* the renderer: mmdc fails, exits 0 without an output file, or writes the image
AllRenderOutcomes == {"execError", "noOutput", "ok"}

(***************************************************************************)
(* Requests.                                                               *)
(***************************************************************************)
Reqs == 1..NumReq

ReqInit ==
    [pc |-> "idle", hdr |-> 0, q |-> 0, gate |-> "none", ran |-> FALSE,
     status |-> 0, body |-> NoBody, doneAt |-> 0, sent |-> 0,
     lookups |-> 0, storeCalls |-> 0, llmCalls |-> 0, renderCalls |-> 0,
     fetched |-> "no", storeErr |-> "", results |-> <<>>,
     diagram |-> <<>>, ts |-> 0, wrote |-> FALSE, gen |-> "none"]

NoResp == [id |-> 0, start |-> 0]

\* res.status(status).json(body)
Respond(rec, status, body) ==
    [rec EXCEPT !.pc = "done", !.status = status, !.body = body, !.doneAt = now,
                !.sent = rec.sent + 1]

Mmd(ts) == [ts |-> ts, ext |-> "mmd"]
Png(ts) == [ts |-> ts, ext |-> "png"]

\* the zero-row branch never taken
ZeroRowsNever(results) == FALSE

\* results.length === 0: src/server.js:116
ZeroRows(results) == Len(results) = 0

\* what the catch of the async handler sends: src/server.js:199-202, 416-419
CatchBody(msg) == ErrorBody(InternalError)

\* what the pool.query callback sends on an error: part_000:53-56, part_001:75-78
CallbackErrorBody(msg) == ErrorBody(msg)

\* the lookup's answer ignored: every request queries the store
AfterLookupAlwaysMiss(rec, g) ==
    [rec EXCEPT !.lookups = 1, !.pc = "awaitStore", !.storeCalls = 1]

\* the pc of a request between its cache lookup and its response
InFlight == {"awaitStore", "awaitLLM", "awaitRender"}

\* single flight: a miss for a text another request is already computing waits
\* for that request instead of querying the store
AfterLookupCoalesce(rec, g) ==
    IF g.hit
    THEN Respond([rec EXCEPT !.lookups = 1], 200, g.value)
    ELSE IF \E o \in Reqs : req[o].pc \in InFlight /\ req[o].q = rec.q
    THEN [rec EXCEPT !.lookups = 1, !.pc = "coalesced"]
    ELSE [rec EXCEPT !.lookups = 1, !.pc = "awaitStore", !.storeCalls = 1]

\* the request leaves the lookup: a hit answers at once, a miss queries the store
AfterLookup(rec, g) ==
    IF g.hit
    THEN Respond([rec EXCEPT !.lookups = 1], 200, g.value)
    ELSE [rec EXCEPT !.lookups = 1, !.pc = "awaitStore", !.storeCalls = 1]

\* The middleware chain and the synchronous part of the /query handler: the gate,
\* the `!sql` check, the validator, the cache lookup and the call of pool.query.
Handle(v, rec, c) ==
    LET gate == IF HasGate(v) THEN GateVerdict[rec.hdr] ELSE "next"
        in   == [rec EXCEPT !.gate = gate]
        run  == [in EXCEPT !.ran = TRUE]
        get  == CacheGet(c, rec.q, now)
    IN  IF gate = "401"
        THEN [req |-> Respond(in, 401, ErrorBody("Unauthorized: No token provided")),
              cache |-> c]
        ELSE IF gate = "403"
        THEN [req |-> Respond(in, 403, ErrorBody("Forbidden: Invalid token")),
              cache |-> c]
        ELSE IF NoSql(rec.q)
        THEN [req |-> Respond(run, 400, ErrorBody("No SQL query provided")), cache |-> c]
        ELSE IF Verdict[v][rec.q] # ""
        THEN [req |-> Respond(run, 400, ErrorBody(Verdict[v][rec.q])), cache |-> c]
        ELSE IF HasCache(v)
        THEN [req |-> AfterLookup(run, get), cache |-> get.cache]
        ELSE [req |-> [run EXCEPT !.pc = "awaitStore", !.storeCalls = 1], cache |-> c]

\* the most recent response, for the requests that follow it back to back:
\* the responding request and the time its cached entry was stored (the time
\* of the response when it stored none)
RespNote(r, rec, c) ==
    IF rec.pc # "done" THEN NoResp
    ELSE LET i == IF NoSql(rec.q) THEN 0 ELSE IndexOf(c, rec.q)
         IN  [id |-> r, start |-> IF i # 0 /\ c[i].value = rec.body
                                  THEN c[i].start ELSE now]

\* A request arrives with a header drawn from Hs and a query drawn from Qs.
Arrive(r, Hs, Qs) ==
    /\ req[r].pc = "idle"
    /\ \E h \in Hs, q \in Qs :
         LET out == Handle(variant, [ReqInit EXCEPT !.hdr = h, !.q = q], cache)
         IN  /\ req' = [req EXCEPT ![r] = out.req]
             /\ cache' = out.cache
             /\ lastResp' = RespNote(r, out.req, out.cache)
    /\ UNCHANGED <<variant, now, files, probe>>

\* pool.query answers request r with an outcome drawn from Outs.
StoreReturns(r, Outs) ==
    /\ req[r].pc = "awaitStore"
    /\ \E o \in Outs :
         LET rec  == req[r]
             base == [rec EXCEPT !.fetched = IF o.err # "" THEN "error" ELSE "rows",
                                 !.storeErr = o.err, !.results = o.rows]
             new  == IF ~HasCache(variant)
                     THEN IF o.err # ""
                          THEN Respond(base, 500, CallbackErrorBody(o.err))
                          ELSE Respond(base, 200, ArrayBody(o.rows))
                     ELSE IF o.err # ""
                          THEN Respond(base, 500, CatchBody(o.err))
                     ELSE IF variant = "server_a" /\ ZeroRows(o.rows)
                          THEN Respond(base, 200, NoDataBody(rec.q))
                     ELSE [base EXCEPT !.pc = "awaitLLM", !.llmCalls = 1]
         IN  /\ req' = [req EXCEPT ![r] = new]
             /\ lastResp' = RespNote(r, new, cache)
    /\ UNCHANGED <<variant, now, cache, files, probe>>

\* the base64 text of a rendered image
Image == "iVBORw0KGgo="

\* res.json(result) without the cache.set before it
StoreAndSendForgets(rec, body, c) ==
    [req |-> Respond(rec, 200, body), cache |-> c]

\* cache.set(sql, result) followed by res.json(result)
StoreAndSend(rec, body, c) ==
    [req |-> Respond(rec, 200, body), cache |-> CacheSet(c, rec.q, body, now)]

\* The handler's tail once generateMermaidImage has returned `image` ("" is null):
\* server_a sends and caches the result without the image, server_b throws.
Finish(v, rec, image, c) ==
    IF image = ""
    THEN IF v = "server_a"
         THEN StoreAndSend(rec, NoImageBody(rec.q, rec.diagram, rec.results), c)
         ELSE [req |-> Respond(rec, 500, CatchBody("Failed to generate image from Mermaid diagram")),
               cache |-> c]
    ELSE StoreAndSend(rec, FullBody(v, rec.q, rec.diagram, image, rec.results), c)

\* The handler's step when extraction found no diagram: server_a sends and caches
\* the rows alone, server_b throws.
NoDiagram(v, rec, c) ==
    IF v = "server_a"
    THEN StoreAndSend(rec, NoDiagramBody(rec.q, rec.results), c)
    ELSE [req |-> Respond(rec, 500, CatchBody("Failed to extract Mermaid diagram from OpenAI response")),
          cache |-> c]

\* The text-generation API answers request r with an outcome drawn from Outs; on
\* a diagram, generateMermaidImage starts: it writes the scratch .mmd file (the
\* write succeeds or throws, drawn from Writes) and runs the renderer.
LLMReturns(r, Outs, Writes) ==
    /\ req[r].pc = "awaitLLM"
    /\ \E o \in Outs, w \in Writes :
         LET rec     == req[r]
             diagram == ExtractMermaidCode(o.text)
             got     == [rec EXCEPT !.diagram = diagram]
             out     == IF o.threw
                        THEN [req |-> Respond(rec, 500, CatchBody("openai")), cache |-> cache]
                        ELSE IF diagram = <<>>
                        THEN NoDiagram(variant, rec, cache)
                        ELSE IF w
                        THEN [req |-> [got EXCEPT !.pc = "awaitRender", !.renderCalls = 1,
                                                  !.ts = now, !.wrote = TRUE,
                                                  !.gen = "running"],
                              cache |-> cache]
                        ELSE Finish(variant, [got EXCEPT !.ts = now, !.gen = "returned"],
                                    "", cache)
         IN  /\ req' = [req EXCEPT ![r] = out.req]
             /\ cache' = out.cache
             /\ files' = IF out.req.pc = "awaitRender"
                         THEN files \cup {Mmd(now)} ELSE files
             /\ lastResp' = RespNote(r, out.req, out.cache)
    /\ UNCHANGED <<variant, now, probe>>

\* the files after generateMermaidImage's exec callback and what follows it:
\* on "ok" the renderer has written the .png; readFileSync needs the .png,
\* unlinkSync the .mmd; only when both succeed are the two files removed
FilesAfterRender(fs, ts, o) ==
    LET produced == IF o = "ok" THEN fs \cup {Png(ts)} ELSE fs
    IN  IF o = "execError" THEN fs
        ELSE IF Png(ts) \in produced /\ Mmd(ts) \in produced
        THEN produced \ {Mmd(ts), Png(ts)}
        ELSE produced

\* what generateMermaidImage returns: the image, or "" (null) from its catch
ImageAfterRender(fs, ts, o) ==
    LET produced == IF o = "ok" THEN fs \cup {Png(ts)} ELSE fs
    IN  IF o # "execError" /\ Png(ts) \in produced /\ Mmd(ts) \in produced
        THEN Image ELSE ""

\* The renderer's subprocess ends for request r with an outcome drawn from Outs;
\* generateMermaidImage returns and the handler answers.
RenderReturns(r, Outs) ==
    /\ req[r].pc = "awaitRender"
    /\ \E o \in Outs :
         LET rec == [req[r] EXCEPT !.gen = "returned"]
             out == Finish(variant, rec, ImageAfterRender(files, rec.ts, o), cache)
         IN  /\ req' = [req EXCEPT ![r] = out.req]
             /\ cache' = out.cache
             /\ files' = FilesAfterRender(files, rec.ts, o)
             /\ lastResp' = RespNote(r, out.req, out.cache)
    /\ UNCHANGED <<variant, now, probe>>

\* The response has been sent and the request is forgotten; its place is free
\* for the next one.
Retire(r) ==
    /\ req[r].pc = "done"
    /\ req' = [req EXCEPT ![r] = ReqInit]
    /\ lastResp' = IF lastResp.id = r THEN NoResp ELSE lastResp
    /\ UNCHANGED <<variant, now, cache, files, probe>>

\* Time passes: first the cache's whole time-to-live in one step, then up to
\* MaxSkew single milliseconds.  The clock reads 0, CacheTtl, CacheTtl + 1, ...
Tick ==
    /\ \E d \in {1, CacheTtl} :
         /\ d = CacheTtl => now = 0
         /\ d = 1 => now >= CacheTtl /\ now - CacheTtl < MaxSkew
         /\ now' = now + d
    /\ UNCHANGED <<variant, cache, files, req, lastResp, probe>>

(***************************************************************************)
(* The cache on its own: set and get applied directly.  `probe` holds what *)
(* the last get answered (until the next set) and a ledger of what was     *)
(* last stored under each key, when, and whether a later set evicted it.   *)
(***************************************************************************)
CacheKeys == 1..(CacheMax + 1)

CacheValues == { NoDiagramBody(1, RowsA), FullBody("server_a", 1, <<"graph">>, Image, RowsB) }

NoSlip == [set |-> FALSE, value |-> NoBody, start |-> 0, evicted |-> FALSE]

ProbeInit ==
    [key |-> 0, hit |-> FALSE, value |-> NoBody, at |-> 0,
     ledger |-> [k \in CacheKeys |-> NoSlip]]

KeysOf(c) == {c[i].key : i \in 1..Len(c)}

\* cache.set(k, v)
CachePut(k, v) ==
    LET after == CacheSet(cache, k, v, now)
        gone  == KeysOf(cache) \ KeysOf(after)
    IN  /\ cache' = after
        /\ probe' = [ProbeInit EXCEPT !.ledger =
             [j \in CacheKeys |->
                IF j = k THEN [set |-> TRUE, value |-> v, start |-> now, evicted |-> FALSE]
                ELSE IF j \in gone THEN [probe.ledger[j] EXCEPT !.evicted = TRUE]
                ELSE probe.ledger[j]]]
        /\ UNCHANGED <<variant, now, files, req, lastResp>>

\* cache.get(k)
CacheProbe(k) ==
    LET g == CacheGet(cache, k, now)
    IN  /\ cache' = g.cache
        /\ probe' = [probe EXCEPT !.key = k, !.hit = g.hit, !.value = g.value, !.at = now]
        /\ UNCHANGED <<variant, now, files, req, lastResp>>

(***************************************************************************)
(* Specifications.                                                         *)
(***************************************************************************)
Start ==
    /\ now = 0
    /\ cache = <<>>
    /\ files = {}
    /\ req = [r \in Reqs |-> ReqInit]
    /\ lastResp = NoResp
    /\ probe = ProbeInit

\* Spec: server_a serving several requests at once, with representative inputs.
SomeHeaders == {1}
SomeQueries == {1, 2}
SomeStoreOutcomes ==
    { StoreError("ER_PARSE_ERROR"), StoreRows(<<>>), StoreRows(RowsA) }
SomeLlmOutcomes == { LlmSays(FencedDiagram), LlmSays(<<"I cannot draw this.">>) }
SomeRenderOutcomes == {"execError", "ok"}

Init == variant = "server_a" /\ Start

Next ==
    \/ \E r \in Reqs : Arrive(r, SomeHeaders, SomeQueries)
    \/ \E r \in Reqs : StoreReturns(r, SomeStoreOutcomes)
    \/ \E r \in Reqs : LLMReturns(r, SomeLlmOutcomes, {TRUE})
    \/ \E r \in Reqs : RenderReturns(r, SomeRenderOutcomes)
    \/ \E r \in Reqs : Retire(r)
    \/ Tick

Spec == Init /\ [][Next]_vars

\* SpecInput: any of the four revisions serving one request, with every input.
InitInput == variant \in Variants /\ Start

NextInput ==
    \/ Arrive(1, HeaderIds, QueryIds)
    \/ StoreReturns(1, AllStoreOutcomes)
    \/ LLMReturns(1, AllLlmOutcomes, BOOLEAN)
    \/ RenderReturns(1, AllRenderOutcomes)

SpecInput == InitInput /\ [][NextInput]_vars

\* SpecCache: the cache alone.
NextCache ==
    \/ \E k \in CacheKeys, v \in CacheValues : CachePut(k, v)
    \/ \E k \in CacheKeys : CacheProbe(k)
    \/ Tick

SpecCache == Init /\ [][NextCache]_vars

(***************************************************************************)
(* Properties.                                                             *)
(***************************************************************************)
Texts == 1..Len(Queries)

\* request r has just arrived in this step
Arrival(r) == req[r].pc = "idle" /\ req'[r].pc # "idle"

\* C1: where there is an access gate, a request without a token (no header, or
\* a header with no second word) is answered 401, a request whose token is not
\* the secret is answered 403, and in both cases the route handler never runs;
\* any other request reaches the route handler.
C1_AccessGate ==
    \A r \in Reqs :
        (req[r].pc # "idle" /\ HasGate(variant)) =>
            LET token == TokenOf(req[r].hdr)
            IN  /\ req[r].hdr = 0 => req[r].status = 401
                /\ token = <<>> =>
                     /\ req[r].pc = "done" /\ req[r].status = 401
                     /\ ~req[r].ran /\ req[r].lookups = 0 /\ req[r].storeCalls = 0
                /\ (token # <<>> /\ token # <<"s","3">>) =>
                     /\ req[r].pc = "done" /\ req[r].status = 403
                     /\ ~req[r].ran /\ req[r].lookups = 0 /\ req[r].storeCalls = 0
                /\ token = <<"s","3">> =>
                     /\ req[r].ran /\ req[r].status \notin {401, 403}

\* a token that is not the secret has been refused with 403
C1_Witness ==
    \E r \in Reqs :
        /\ HasGate(variant) /\ req[r].pc = "done" /\ req[r].hdr = 2
        /\ req[r].status = 403 /\ ~req[r].ran

\* the text holds a forbidden keyword as a word, or forbidden punctuation anywhere
ContainsForbidden(s) ==
    \/ \E i \in 1..Len(s) : \E w \in ForbiddenWords :
         OccursAt(s, i, w) /\ WordBoundary(s, i - 1) /\ WordBoundary(s, i - 1 + Len(w))
    \/ \E i \in 1..Len(s) : \E p \in ForbiddenPunct : OccursAt(s, i, p)

HasForbidden == [q \in Texts |-> ContainsForbidden(Queries[q])]

\* C2: in server_a every text that holds a forbidden keyword or forbidden
\* punctuation is answered 400 by the validator and is neither looked up in the
\* cache nor sent to the store.
C2_ForbiddenRejected ==
    \A r \in Reqs :
        (variant = "server_a" /\ req[r].ran /\ ~NoSql(req[r].q) /\ HasForbidden[req[r].q]) =>
            /\ req[r].pc = "done" /\ req[r].status = 400
            /\ req[r].lookups = 0 /\ req[r].storeCalls = 0

NotSelect == [q \in Texts |-> ~StartsWith(ToUpperCase(Trim(Queries[q])), SELECT)]

\* C3: in part_000, part_001 and server_a every non-empty text whose trimmed,
\* upper-cased form does not start with SELECT is answered 400 with the error
\* 'Only SELECT statements are allowed' and is never sent to the store.
C3_OnlySelect ==
    \A r \in Reqs :
        (variant # "server_b" /\ req[r].ran /\ ~NoSql(req[r].q) /\ NotSelect[req[r].q]) =>
            /\ req[r].pc = "done" /\ req[r].status = 400
            /\ req[r].body = ErrorBody("Only SELECT statements are allowed")
            /\ req[r].storeCalls = 0

\* "DROP TABLE t" has been refused
C3_Witness ==
    \E r \in Reqs :
        /\ req[r].ran /\ req[r].q = 5 /\ req[r].status = 400
        /\ req[r].body.error = "Only SELECT statements are allowed"

\* the request was valid and authenticated: it got past the gate and the validator
Validated(rec) == rec.gate = "next" /\ rec.lookups = 1

C5_GenericError ==
    \A r \in Reqs :
        (variant \in {"server_a", "part_000"} /\ req[r].fetched = "error") =>
            /\ req[r].pc = "done" /\ req[r].status = 500
            /\ req[r].body = ErrorBody("Internal server error")
            /\ req[r].body.error # req[r].storeErr

\* C6: in server_a, once generateMermaidImage has returned, the scratch .mmd
\* file it wrote is gone.
C6_ScratchDeleted ==
    \A r \in Reqs :
        (variant = "server_a" /\ req[r].gen = "returned" /\ req[r].wrote) =>
            Mmd(req[r].ts) \notin files

\* the body of a response without the diagram, or without the image
IsPartial(b) ==
    b.message \in {"Mermaid diagram could not be generated.",
                   "Image could not be generated from Mermaid diagram."}

\* r2 arrives in this step, authenticated, with the text for which r1 computed
\* and sent a partial result no longer than the time-to-live ago
LaterSameText(r1, r2) ==
    /\ r1 # r2 /\ Arrival(r2)
    /\ req[r1].pc = "done" /\ req[r1].storeCalls = 1 /\ IsPartial(req[r1].body)
    /\ req'[r2].gate = "next" /\ req'[r2].q = req[r1].q
    /\ now - req[r1].doneAt <= 300000

\* r2 is answered with r1's response, and calls nothing
ServedVerbatim(r1, r2) ==
    /\ req'[r2].pc = "done" /\ req'[r2].status = 200
    /\ req'[r2].body = req[r1].body
    /\ req'[r2].storeCalls = 0 /\ req'[r2].llmCalls = 0 /\ req'[r2].renderCalls = 0

\* C7 as claimed: in server_a every later request for the text of a partial
\* result, before the time-to-live of that result has passed, is answered with
\* that partial result, without a call of the store, the API or the renderer.
C7_PartialServed ==
    [][\A r1, r2 \in Reqs : LaterSameText(r1, r2) => ServedVerbatim(r1, r2)]_vars

\* the cache holds body b under text q, stored at time t
Holds(c, q, b, t) ==
    \E i \in 1..Len(c) : c[i].key = q /\ c[i].value = b /\ c[i].start = t

\* C7 as amended: a partial result is stored in the cache under its text when it
\* is sent, and every later request for that text that arrives while the cache
\* still holds that entry, unexpired, is answered with it verbatim, without a
\* call of the store, the API or the renderer.
C7_PartialStoredAndServed ==
    [][/\ \A r \in Reqs :
            (/\ req[r].pc # "done" /\ req'[r].pc = "done"
             /\ req'[r].storeCalls = 1 /\ IsPartial(req'[r].body))
            => Holds(cache', req'[r].q, req'[r].body, now)
       /\ \A r1, r2 \in Reqs :
            (/\ LaterSameText(r1, r2)
             /\ Holds(cache, req[r1].q, req[r1].body, req[r1].doneAt))
            => ServedVerbatim(r1, r2)]_vars

\* a partial result computed by one request has been served to a later one
C7_Witness ==
    \E r1, r2 \in Reqs :
        /\ r1 # r2 /\ req[r1].pc = "done" /\ req[r2].pc = "done"
        /\ req[r1].q = req[r2].q
        /\ req[r1].storeCalls = 1 /\ IsPartial(req[r1].body)
        /\ req[r2].lookups = 1 /\ req[r2].storeCalls = 0 /\ req[r2].llmCalls = 0
        /\ req[r2].body = req[r1].body
        /\ req[r2].doneAt > req[r1].doneAt

\* C8: in server_a, when the store returns zero rows the response is 200 with
\* the 'No data found' message and no error, and neither the text-generation
\* API nor the renderer is called.
C8_ZeroRows ==
    \A r \in Reqs :
        (variant = "server_a" /\ req[r].fetched = "rows" /\ req[r].results = <<>>) =>
            /\ req[r].pc = "done" /\ req[r].status = 200
            /\ req[r].body.message =
                 "No data found for the given query. Please check your query and try again."
            /\ req[r].body.error = ""
            /\ req[r].llmCalls = 0 /\ req[r].renderCalls = 0

\* the store has returned zero rows and the request is answered 200
C8_Witness ==
    \E r \in Reqs :
        /\ variant = "server_a" /\ req[r].fetched = "rows" /\ req[r].results = <<>>
        /\ req[r].storeCalls = 1 /\ req[r].status = 200

\* C9: in server_a every text of more than 1000 characters is answered 400 and
\* is neither looked up in the cache nor sent to the store.
C9_TooLong ==
    \A r \in Reqs :
        (variant = "server_a" /\ req[r].ran /\ ~NoSql(req[r].q)
            /\ Len(Queries[req[r].q]) > 1000) =>
            /\ req[r].pc = "done" /\ req[r].status = 400
            /\ req[r].lookups = 0 /\ req[r].storeCalls = 0

\* a text of 1001 characters that starts with SELECT and holds nothing forbidden
\* has been refused for its length
C9_Witness ==
    \E r \in Reqs :
        /\ variant = "server_a" /\ req[r].ran /\ req[r].q = 13
        /\ ~HasForbidden[13] /\ ~NotSelect[13]
        /\ req[r].status = 400 /\ req[r].body.error = "SQL query is too long"

\* C10: a get of key K answers the value last stored under K while that entry
\* is younger than five minutes and has not been evicted for capacity; it
\* answers absent when nothing was stored, when the entry is older than five
\* minutes, or when it was evicted.  The cache never holds more than CacheMax
\* entries.
C10_RoundTrip ==
    /\ Len(cache) <= CacheMax
    /\ probe.key # 0 =>
         LET slip == probe.ledger[probe.key]
             age  == probe.at - slip.start
         IN  /\ (slip.set /\ ~slip.evicted /\ age < 300000) =>
                    probe.hit /\ probe.value = slip.value
             /\ (~slip.set \/ slip.evicted \/ age > 300000) => ~probe.hit

\* a get has answered the value stored earlier
C10_Witness ==
    /\ probe.key # 0 /\ probe.hit
    /\ probe.value = probe.ledger[probe.key].value
    /\ probe.at > probe.ledger[probe.key].start
    /\ \E k \in CacheKeys : probe.ledger[k].evicted

\* the cache holds a live entry for text q at time t
LiveEntry(c, q, t) == \E i \in 1..Len(c) : c[i].key = q /\ ~IsStale(c[i], t)

\* the positions of the cache's entries for text q
EntriesFor(c, q) == {i \in 1..Len(c) : c[i].key = q}

\* the request computed its response itself, through the store, the API and
\* the renderer, and cached it
RanPipeline(rec) ==
    /\ rec.pc = "done" /\ rec.status = 200
    /\ rec.lookups = 1 /\ rec.storeCalls = 1 /\ rec.llmCalls = 1 /\ rec.renderCalls = 1

\* C11: in server_a there is no single flight.  An authenticated request for a
\* valid text that arrives while another request for the same text is still in
\* flight, and finds no live cache entry, misses and queries the store itself;
\* a request in flight goes on through the API and the renderer whatever the
\* other requests do.  Every request is answered exactly once (never twice,
\* and not at all before it is done), and the cache holds at most one entry
\* per text: when a request that ran the pipeline answers, the cache holds
\* exactly one entry for its text, the result it has just sent.
C11_NoSingleFlight ==
    [][/\ \A r1, r2 \in Reqs :
            (/\ r1 # r2 /\ Arrival(r2)
             /\ req[r1].pc \in InFlight /\ req'[r2].q = req[r1].q
             /\ req'[r2].gate = "next"
             /\ ~LiveEntry(cache, req[r1].q, now))
            => /\ req'[r2].pc = "awaitStore"
               /\ req'[r2].lookups = 1 /\ req'[r2].storeCalls = 1
       /\ \A r \in Reqs :
            /\ req'[r].sent = IF req'[r].pc = "done" THEN 1 ELSE 0
            /\ (req[r].pc = "done" /\ req'[r].pc = "done") => req'[r] = req[r]
            /\ (req[r].pc = "awaitStore" /\ req'[r].pc = "awaitLLM") =>
                   req'[r].llmCalls = 1
            /\ (req[r].pc = "awaitLLM" /\ req'[r].pc = "awaitRender") =>
                   req'[r].renderCalls = 1
            /\ (req[r].pc # "done" /\ RanPipeline(req'[r])) =>
                   /\ Cardinality(EntriesFor(cache', req'[r].q)) = 1
                   /\ Holds(cache', req'[r].q, req'[r].body, now)
       /\ \A q \in Texts : Cardinality(EntriesFor(cache', q)) <= 1]_vars

\* two requests for one text were in flight together (each started rendering
\* no later than the other answered, so the later one arrived before the
\* earlier one's result was cached), both missed the cache and ran the store
\* query, the API and the renderer, both are answered once, and the cache holds
\* one entry for the text
C11_Witness ==
    \E r1, r2 \in Reqs :
        /\ r1 # r2 /\ req[r1].q = req[r2].q /\ req[r1].gate = "next"
        /\ RanPipeline(req[r1]) /\ RanPipeline(req[r2])
        /\ req[r1].ts <= req[r2].doneAt /\ req[r2].ts <= req[r1].doneAt
        /\ req[r1].sent = 1 /\ req[r2].sent = 1
        /\ Cardinality(EntriesFor(cache, req[r1].q)) = 1

\* C12: in every revision, a request whose text was sent to the store carried
\* the secret token, a text that is non-empty, starts with SELECT, holds no
\* forbidden keyword or punctuation and has at most 1000 characters, and (where
\* there is a cache) was looked up in the cache and missed; a request for which
\* the text-generation API or the renderer was called had its store query
\* return at least one row.
C12_PipelineOrder ==
    \A r \in Reqs :
        /\ req[r].storeCalls > 0 =>
              /\ GateVerdict[req[r].hdr] = "next"
              /\ ~NoSql(req[r].q)
              /\ ~NotSelect[req[r].q]
              /\ ~HasForbidden[req[r].q]
              /\ Len(Queries[req[r].q]) <= 1000
              /\ HasCache(variant) => req[r].lookups = 1
        /\ (req[r].llmCalls > 0 \/ req[r].renderCalls > 0) =>
              /\ req[r].storeCalls = 1
              /\ req[r].fetched = "rows" /\ req[r].results # <<>>

====
